---- MODULE Spec2Model ----
(***************************************************************************)
(* Adoption workflow of the adaopte backend: the animal and adopt tables,  *)
(* and the HTTP handlers that read and write them.  Every await on the     *)
(* datastore is one step of a handler; the statements inside               *)
(* prisma.$transaction commit as one step.  Columns no handler branches on *)
(* (names, phone, the admin comment) are left out of the rows.             *)
(***************************************************************************)
EXTENDS Integers, FiniteSets, Sequences, TLC

\* ---------------------------------------------------------------- bounds
\* caps on the autoincrement counters of the two tables
MaxAnimals == 1
MaxAdopt   == 2
\* authenticated callers (req.user.userId)
NumUsers   == 2
\* requests the server has in flight at the same time
NumProcs   == 2
\* caps on the autoincrement counters of the donation and volunteer tables
MaxDonations  == 2
MaxVolunteers == 2

AnimalIds == 1..MaxAnimals
AdoptIds  == 1..MaxAdopt
UserIds   == 1..NumUsers
Procs     == 1..NumProcs
DonationIds  == 1..MaxDonations
VolunteerIds == 1..MaxVolunteers

\* ---------------------------------------------------------------- state
VARIABLES
    animal,        \* table animal: id -> status, "none" when no such row
    nextAnimalId,  \* autoincrement of animal.id
    adopt,         \* table adopt: id -> row, NoRow when no such row
    nextAdoptId,   \* autoincrement of adopt.id
    pc,            \* per request slot: the await the handler is suspended at
    req,           \* per request slot: route and parameters of the call
    loc,           \* per request slot: existingAdoption loaded by decide
    res,           \* per request slot: HTTP status of the response, 0 if none
    donation,        \* table donation: id -> status, "none" when no such row
    nextDonationId,  \* autoincrement of donation.id
    volunteer,       \* table volunteer: id -> row, NoVolunteer when no such row
    nextVolunteerId, \* autoincrement of volunteer.id
    user,            \* table user: id -> row, NoUser when no such row
    nextUserId,      \* autoincrement of user.id
    tokens,          \* payloads {userId, role} of the JWTs signed so far
    animalData       \* table animal: id -> the columns besides status

vars == <<animal, nextAnimalId, adopt, nextAdoptId, pc, req, loc, res,
          donation, nextDonationId, volunteer, nextVolunteerId,
          user, nextUserId, tokens, animalData>>
db   == <<animal, nextAnimalId, adopt, nextAdoptId>>
\* the tables and columns the adoption handlers never touch
registry == <<donation, nextDonationId, volunteer, nextVolunteerId,
              user, nextUserId, tokens, animalData>>

\* an email address, by what the handlers can tell about it: its text once
\* trimmed and lower-cased, whether it has upper-case letters, and whether
\* it has leading or trailing white space
NoEmail     == [name |-> "none", upper |-> FALSE, padded |-> FALSE]
NoVolunteer == [email |-> NoEmail, status |-> "none"]
NoUser      == [email |-> NoEmail, role |-> "none"]

\* a string, by its text once trimmed and whether it has leading or trailing
\* white space; undefined and null are values of their own
Undefined == [text |-> "undefined", padded |-> FALSE]
Null      == [text |-> "null", padded |-> FALSE]
TextFields == {"type", "name", "city", "breed"}
NoAnimalData == [fields |-> [f \in TextFields |-> Undefined], age |-> 0,
                 description |-> Undefined]

NoRow == [userid |-> 0, animalid |-> 0, status |-> "none"]
NoReq == [op |-> "none", userId |-> 0, animalId |-> 0, adoptionId |-> 0, status |-> "none"]
NoLoc == [animalid |-> 0, animalStatus |-> "none", status |-> "none"]

AdoptStatuses  == {"pending", "approved", "rejected"}
AnimalStatuses == {"available", "adopted", "pending"}

Init ==
    /\ animal = [a \in AnimalIds |-> "none"]
    /\ nextAnimalId = 1
    /\ adopt = [i \in AdoptIds |-> NoRow]
    /\ nextAdoptId = 1
    /\ pc = [p \in Procs |-> "idle"]
    /\ req = [p \in Procs |-> NoReq]
    /\ loc = [p \in Procs |-> NoLoc]
    /\ res = [p \in Procs |-> 0]
    /\ donation = [d \in DonationIds |-> "none"]
    /\ nextDonationId = 1
    /\ volunteer = [v \in VolunteerIds |-> NoVolunteer]
    /\ nextVolunteerId = 1
    /\ user = [u \in UserIds |-> NoUser]
    /\ nextUserId = 1
    /\ tokens = {}
    /\ animalData = [a \in AnimalIds |-> NoAnimalData]

\* ---------------------------------------------------------------- helpers
Exists(id) == adopt[id].status # "none"

\* res.status(code).json(...): the handler has answered
Finish(p, code) ==
    /\ pc' = [pc EXCEPT ![p] = "done"]
    /\ res' = [res EXCEPT ![p] = code]

Goto(p, label) ==
    /\ pc' = [pc EXCEPT ![p] = label]
    /\ UNCHANGED res

\* the response has been sent; the slot is free for the next call
Respond(p) ==
    /\ pc[p] = "done"
    /\ pc' = [pc EXCEPT ![p] = "idle"]
    /\ req' = [req EXCEPT ![p] = NoReq]
    /\ loc' = [loc EXCEPT ![p] = NoLoc]
    /\ res' = [res EXCEPT ![p] = 0]
    /\ UNCHANGED db
    /\ UNCHANGED registry

\* ---------------------------------------------------------------- animals
\* AnimalService.createAnimal: one insert, status 'available'
createAnimal(p) ==
    /\ pc[p] = "idle"
    /\ nextAnimalId <= MaxAnimals
    /\ animal' = [animal EXCEPT ![nextAnimalId] = "available"]
    /\ nextAnimalId' = nextAnimalId + 1
    /\ req' = [req EXCEPT ![p] = [NoReq EXCEPT !.op = "createAnimal", !.animalId = nextAnimalId]]
    /\ Finish(p, 201)
    /\ UNCHANGED <<adopt, nextAdoptId, loc>>
    /\ UNCHANGED registry

\* AnimalService.markAsAdopted: findUnique, then update
markAsAdopted_find(p) ==
    /\ pc[p] = "idle"
    /\ \E a \in AnimalIds :
        /\ req' = [req EXCEPT ![p] = [NoReq EXCEPT !.op = "markAsAdopted", !.animalId = a]]
        /\ IF animal[a] = "none" THEN Finish(p, 404)
           ELSE IF animal[a] = "adopted" THEN Finish(p, 400)
           ELSE Goto(p, "markAsAdopted_update")
    /\ UNCHANGED <<db, loc>>
    /\ UNCHANGED registry

markAsAdopted_update(p) ==
    /\ pc[p] = "markAsAdopted_update"
    /\ IF animal[req[p].animalId] = "none"
       THEN Finish(p, 500) /\ UNCHANGED animal
       ELSE Finish(p, 200) /\ animal' = [animal EXCEPT ![req[p].animalId] = "adopted"]
    /\ UNCHANGED <<nextAnimalId, adopt, nextAdoptId, req, loc>>
    /\ UNCHANGED registry

\* AnimalService.markAsAvailable: findUnique, then update
markAsAvailable_find(p) ==
    /\ pc[p] = "idle"
    /\ \E a \in AnimalIds :
        /\ req' = [req EXCEPT ![p] = [NoReq EXCEPT !.op = "markAsAvailable", !.animalId = a]]
        /\ IF animal[a] = "none" THEN Finish(p, 404)
           ELSE Goto(p, "markAsAvailable_update")
    /\ UNCHANGED <<db, loc>>
    /\ UNCHANGED registry

markAsAvailable_update(p) ==
    /\ pc[p] = "markAsAvailable_update"
    /\ IF animal[req[p].animalId] = "none"
       THEN Finish(p, 500) /\ UNCHANGED animal
       ELSE Finish(p, 200) /\ animal' = [animal EXCEPT ![req[p].animalId] = "available"]
    /\ UNCHANGED <<nextAnimalId, adopt, nextAdoptId, req, loc>>
    /\ UNCHANGED registry

\* AnimalService.updateAnimal: status is one of the valid statuses, an
\* invalid one ("other"), or not supplied ("none": only other fields change)
UpdateStatusInputs == AnimalStatuses \cup {"other", "none"}

updateAnimal_find(p) ==
    /\ pc[p] = "idle"
    /\ \E a \in AnimalIds, s \in UpdateStatusInputs :
        /\ req' = [req EXCEPT ![p] = [NoReq EXCEPT !.op = "updateAnimal", !.animalId = a, !.status = s]]
        /\ IF animal[a] = "none" THEN Finish(p, 404)
           ELSE IF s = "other" THEN Finish(p, 400)
           ELSE Goto(p, "updateAnimal_update")
    /\ UNCHANGED <<db, loc>>
    /\ UNCHANGED registry

updateAnimal_update(p) ==
    /\ pc[p] = "updateAnimal_update"
    /\ IF animal[req[p].animalId] = "none"
       THEN Finish(p, 500) /\ UNCHANGED animal
       ELSE /\ Finish(p, 200)
            /\ animal' = IF req[p].status = "none" THEN animal
                         ELSE [animal EXCEPT ![req[p].animalId] = req[p].status]
    /\ UNCHANGED <<nextAnimalId, adopt, nextAdoptId, req, loc>>
    /\ UNCHANGED registry

\* existingAnimal.adopt.filter(adoption => adoption.status === 'pending').length > 0
HasPendingAdoption(a) ==
    \E i \in AdoptIds : adopt[i].animalid = a /\ adopt[i].status = "pending"

\* the rows of adopt left when animal a is deleted: the rows that reference
\* it go with it (the foreign key adopt.animalid -> animal.id)
OnDeleteAnimal(rows, a) ==
    [i \in AdoptIds |-> IF rows[i].animalid = a THEN NoRow ELSE rows[i]]

\* AnimalService.deleteAnimal, first await: findUnique({include: {adopt}})
deleteAnimal_find(p) ==
    /\ pc[p] = "idle"
    /\ \E a \in AnimalIds :
        /\ req' = [req EXCEPT ![p] = [NoReq EXCEPT !.op = "deleteAnimal", !.animalId = a]]
        /\ IF animal[a] = "none" THEN Finish(p, 404)
           ELSE IF HasPendingAdoption(a) THEN Finish(p, 409)
           ELSE Goto(p, "deleteAnimal_delete")
    /\ UNCHANGED <<db, loc>>
    /\ UNCHANGED registry

\* AnimalService.deleteAnimal, second await: prisma.animal.delete
deleteAnimal_delete(p) ==
    /\ pc[p] = "deleteAnimal_delete"
    /\ IF animal[req[p].animalId] = "none"
       THEN Finish(p, 500) /\ UNCHANGED <<animal, adopt>>
       ELSE /\ Finish(p, 200)
            /\ animal' = [animal EXCEPT ![req[p].animalId] = "none"]
            /\ adopt' = OnDeleteAnimal(adopt, req[p].animalId)
    /\ UNCHANGED <<nextAnimalId, nextAdoptId, req, loc>>
    /\ UNCHANGED registry

\* ---------------------------------------------------------------- adoptions
\* findFirst without the status filter: a rejected request blocks a new one
HasActive_anyStatus(u, a) ==
    \E i \in AdoptIds : adopt[i].userid = u /\ adopt[i].animalid = a

\* prisma.adopt.findFirst({userid, animalid, status in [pending, approved]})
HasActive(u, a) ==
    \E i \in AdoptIds :
        /\ adopt[i].userid = u
        /\ adopt[i].animalid = a
        /\ adopt[i].status \in {"pending", "approved"}

\* calls that have passed at most their checks and may still insert a row
CreatesInFlight ==
    Cardinality({q \in Procs : pc[q] \in {"create_findExisting", "create_insert"}})

\* POST /adoptions without the check animal.status !== 'available'
CreateAdoption_findAnimal_noStatusCheck(p) ==
    /\ pc[p] = "idle"
    /\ nextAdoptId + CreatesInFlight <= MaxAdopt
    /\ \E u \in UserIds, a \in AnimalIds :
        /\ req' = [req EXCEPT ![p] = [NoReq EXCEPT !.op = "create", !.userId = u, !.animalId = a]]
        /\ IF animal[a] = "none" THEN Finish(p, 404)
           ELSE Goto(p, "create_findExisting")
    /\ UNCHANGED <<db, loc>>
    /\ UNCHANGED registry

\* POST /adoptions, first await: prisma.animal.findUnique
CreateAdoption_findAnimal(p) ==
    /\ pc[p] = "idle"
    /\ nextAdoptId + CreatesInFlight <= MaxAdopt
    /\ \E u \in UserIds, a \in AnimalIds :
        /\ req' = [req EXCEPT ![p] = [NoReq EXCEPT !.op = "create", !.userId = u, !.animalId = a]]
        /\ IF animal[a] = "none" THEN Finish(p, 404)
           ELSE IF animal[a] # "available" THEN Finish(p, 400)
           ELSE Goto(p, "create_findExisting")
    /\ UNCHANGED <<db, loc>>
    /\ UNCHANGED registry

\* POST /adoptions, second await: prisma.adopt.findFirst
CreateAdoption_findExisting(p) ==
    /\ pc[p] = "create_findExisting"
    /\ IF HasActive(req[p].userId, req[p].animalId)
       THEN Finish(p, 409)
       ELSE Goto(p, "create_insert")
    /\ UNCHANGED <<db, req, loc>>
    /\ UNCHANGED registry

\* variant: the insert also marks the animal 'pending'
CreateAdoption_insert_marksAnimal(p) ==
    /\ pc[p] = "create_insert"
    /\ nextAdoptId <= MaxAdopt
    /\ IF animal[req[p].animalId] = "none"
       THEN Finish(p, 500) /\ UNCHANGED <<adopt, nextAdoptId, animal>>
       ELSE /\ adopt' = [adopt EXCEPT ![nextAdoptId] =
                    [userid |-> req[p].userId, animalid |-> req[p].animalId, status |-> "pending"]]
            /\ nextAdoptId' = nextAdoptId + 1
            /\ animal' = [animal EXCEPT ![req[p].animalId] = "pending"]
            /\ Finish(p, 201)
    /\ UNCHANGED <<nextAnimalId, req, loc>>
    /\ UNCHANGED registry

\* POST /adoptions, third await: prisma.adopt.create
CreateAdoption_insert(p) ==
    /\ pc[p] = "create_insert"
    /\ nextAdoptId <= MaxAdopt
    /\ IF animal[req[p].animalId] = "none"
       THEN Finish(p, 500) /\ UNCHANGED <<adopt, nextAdoptId>>
       ELSE /\ adopt' = [adopt EXCEPT ![nextAdoptId] =
                    [userid |-> req[p].userId, animalid |-> req[p].animalId, status |-> "pending"]]
            /\ nextAdoptId' = nextAdoptId + 1
            /\ Finish(p, 201)
    /\ UNCHANGED <<animal, nextAnimalId, req, loc>>
    /\ UNCHANGED registry

\* variant: no ownership check
CancelAdoption_find_noOwnerCheck(p) ==
    /\ pc[p] = "idle"
    /\ \E u \in UserIds, id \in AdoptIds :
        /\ req' = [req EXCEPT ![p] = [NoReq EXCEPT !.op = "cancel", !.userId = u, !.adoptionId = id]]
        /\ IF ~Exists(id) THEN Finish(p, 404)
           ELSE IF adopt[id].status # "pending" THEN Finish(p, 400)
           ELSE Goto(p, "cancel_delete")
    /\ UNCHANGED <<db, loc>>
    /\ UNCHANGED registry

\* DELETE /adoption/:id, first await: prisma.adopt.findUnique and the checks
CancelAdoption_find(p) ==
    /\ pc[p] = "idle"
    /\ \E u \in UserIds, id \in AdoptIds :
        /\ req' = [req EXCEPT ![p] = [NoReq EXCEPT !.op = "cancel", !.userId = u, !.adoptionId = id]]
        /\ IF ~Exists(id) THEN Finish(p, 404)
           ELSE IF adopt[id].userid # u THEN Finish(p, 403)
           ELSE IF adopt[id].status # "pending" THEN Finish(p, 400)
           ELSE Goto(p, "cancel_delete")
    /\ UNCHANGED <<db, loc>>
    /\ UNCHANGED registry

\* DELETE /adoption/:id, second await: prisma.adopt.delete
CancelAdoption_delete(p) ==
    /\ pc[p] = "cancel_delete"
    /\ IF ~Exists(req[p].adoptionId)
       THEN Finish(p, 500) /\ UNCHANGED adopt
       ELSE Finish(p, 200) /\ adopt' = [adopt EXCEPT ![req[p].adoptionId] = NoRow]
    /\ UNCHANGED <<animal, nextAnimalId, nextAdoptId, req, loc>>
    /\ UNCHANGED registry

\* DELETE /admin/adoptions/:id, first await: prisma.adopt.findUnique
AdminDeleteAdoption_find(p) ==
    /\ pc[p] = "idle"
    /\ \E id \in AdoptIds :
        /\ req' = [req EXCEPT ![p] = [NoReq EXCEPT !.op = "adminDelete", !.adoptionId = id]]
        /\ IF ~Exists(id) THEN Finish(p, 404)
           ELSE Goto(p, "adminDelete_delete")
    /\ UNCHANGED <<db, loc>>
    /\ UNCHANGED registry

\* DELETE /admin/adoptions/:id, second await: prisma.adopt.delete
AdminDeleteAdoption_delete(p) ==
    /\ pc[p] = "adminDelete_delete"
    /\ IF ~Exists(req[p].adoptionId)
       THEN Finish(p, 500) /\ UNCHANGED adopt
       ELSE Finish(p, 200) /\ adopt' = [adopt EXCEPT ![req[p].adoptionId] = NoRow]
    /\ UNCHANGED <<animal, nextAnimalId, nextAdoptId, req, loc>>
    /\ UNCHANGED registry

\* ---------------------------------------------------------------- decide
\* body.status values: the three the route accepts and one it refuses
DecideStatusInputs == AdoptStatuses \cup {"other"}

\* PUT /admin/adoptions/:id, validation and first await:
\* prisma.adopt.findUnique({include: {animal: true}}) -> existingAdoption
DecideAdoption_load(p) ==
    /\ pc[p] = "idle"
    /\ \E id \in AdoptIds, s \in DecideStatusInputs :
        /\ req' = [req EXCEPT ![p] = [NoReq EXCEPT !.op = "decide", !.adoptionId = id, !.status = s]]
        /\ IF s \notin AdoptStatuses
           THEN Finish(p, 400) /\ UNCHANGED loc
           ELSE IF ~Exists(id)
           THEN Finish(p, 404) /\ UNCHANGED loc
           ELSE /\ Goto(p, "decide_tx")
                /\ loc' = [loc EXCEPT ![p] =
                      [animalid |-> adopt[id].animalid,
                       animalStatus |-> animal[adopt[id].animalid],
                       status |-> adopt[id].status]]
    /\ UNCHANGED db
    /\ UNCHANGED registry

\* tx.adopt.update({where: {id}, data: {status}})
UpdateStatus(rows, id, s) == [rows EXCEPT ![id].status = s]

\* the approval without its cascade: the other pending requests stay pending
RejectOthers_none(rows, id, x) == rows

\* tx.adopt.updateMany({animalid, id: {not: adoptionId}, status: 'pending'} -> rejected)
RejectOthers(rows, id, x) ==
    [j \in AdoptIds |->
        IF j # id /\ rows[j].animalid = x /\ rows[j].status = "pending"
        THEN [rows[j] EXCEPT !.status = "rejected"]
        ELSE rows[j]]

\* tx.adopt.count({animalid, id: {not: adoptionId}, status: 'pending'})
OtherPending(rows, id, x) ==
    Cardinality({j \in AdoptIds : j # id /\ rows[j].animalid = x /\ rows[j].status = "pending"})

\* the rejected branch taken whatever animal status the load read
RevertsAnimal_anyLoaded(s, loaded) == s = "rejected"

\* the rejected branch is taken on the animal status read by the load
RevertsAnimal(s, loaded) == s = "rejected" /\ loaded.animalStatus = "pending"

\* variant: no transaction, the animal is written before the request
DecideAdoption_transaction_partial(p) ==
    /\ pc[p] = "decide_tx"
    /\ LET id == req[p].adoptionId
           s  == req[p].status
           x  == loc[p].animalid
           a1 == UpdateStatus(adopt, id, s)
       IN IF ~Exists(id)
          THEN /\ Finish(p, 500)
               /\ animal' = IF s = "approved" /\ animal[x] # "none"
                            THEN [animal EXCEPT ![x] = "adopted"] ELSE animal
               /\ UNCHANGED adopt
          ELSE /\ Finish(p, 200)
               /\ adopt' = IF s = "approved" THEN RejectOthers(a1, id, x) ELSE a1
               /\ animal' = IF s = "approved" THEN [animal EXCEPT ![x] = "adopted"]
                            ELSE animal
    /\ UNCHANGED <<nextAnimalId, nextAdoptId, req, loc>>
    /\ UNCHANGED registry

\* PUT /admin/adoptions/:id, prisma.$transaction: all statements or none
DecideAdoption_transaction(p) ==
    /\ pc[p] = "decide_tx"
    /\ LET id == req[p].adoptionId
           s  == req[p].status
           x  == loc[p].animalid
           a1 == UpdateStatus(adopt, id, s)
           writesAnimal == s = "approved"
                           \/ (RevertsAnimal(s, loc[p]) /\ OtherPending(a1, id, x) = 0)
       IN IF ~Exists(id) \/ (writesAnimal /\ animal[x] = "none")
          THEN Finish(p, 500) /\ UNCHANGED <<adopt, animal>>
          ELSE /\ Finish(p, 200)
               /\ adopt' = IF s = "approved" THEN RejectOthers(a1, id, x) ELSE a1
               /\ animal' =
                    IF s = "approved" THEN [animal EXCEPT ![x] = "adopted"]
                    ELSE IF writesAnimal THEN [animal EXCEPT ![x] = "available"]
                    ELSE animal
    /\ UNCHANGED <<nextAnimalId, nextAdoptId, req, loc>>
    /\ UNCHANGED registry

\* ---------------------------------------------------------------- next
Step(p) ==
    \/ createAnimal(p)
    \/ markAsAdopted_find(p)
    \/ markAsAdopted_update(p)
    \/ markAsAvailable_find(p)
    \/ markAsAvailable_update(p)
    \/ updateAnimal_find(p)
    \/ updateAnimal_update(p)
    \/ deleteAnimal_find(p)
    \/ deleteAnimal_delete(p)
    \/ CreateAdoption_findAnimal(p)
    \/ CreateAdoption_findExisting(p)
    \/ CreateAdoption_insert(p)
    \/ CancelAdoption_find(p)
    \/ CancelAdoption_delete(p)
    \/ AdminDeleteAdoption_find(p)
    \/ AdminDeleteAdoption_delete(p)
    \/ DecideAdoption_load(p)
    \/ DecideAdoption_transaction(p)
    \/ Respond(p)

\* requests are handled concurrently: any handler may run between two
\* awaits of another one
Next == \E p \in Procs : Step(p)

Spec == Init /\ [][Next]_vars

\* the adoption routes alone, handled concurrently: users create and cancel
\* requests while administrators decide them
AdoptionFlowNext ==
    \E p \in Procs :
        \/ createAnimal(p)
        \/ CreateAdoption_findAnimal(p)
        \/ CreateAdoption_findExisting(p)
        \/ CreateAdoption_insert(p)
        \/ CancelAdoption_find(p)
        \/ CancelAdoption_delete(p)
        \/ DecideAdoption_load(p)
        \/ DecideAdoption_transaction(p)
        \/ Respond(p)

AdoptionFlowSpec == Init /\ [][AdoptionFlowNext]_vars

\* one request at a time: every call is handled to its response in the same
\* slot before the next call arrives
SerialProcs == {1}

NextSerial ==
    \E p \in SerialProcs :
        \/ createAnimal(p)
        \/ markAsAdopted_find(p)
        \/ markAsAdopted_update(p)
        \/ markAsAvailable_find(p)
        \/ markAsAvailable_update(p)
        \/ updateAnimal_find(p)
        \/ updateAnimal_update(p)
        \/ deleteAnimal_find(p)
        \/ deleteAnimal_delete(p)
        \/ CreateAdoption_findAnimal(p)
        \/ CreateAdoption_findExisting(p)
        \/ CreateAdoption_insert(p)
        \/ CancelAdoption_find(p)
        \/ CancelAdoption_delete(p)
        \/ AdminDeleteAdoption_find(p)
        \/ AdminDeleteAdoption_delete(p)
        \/ DecideAdoption_load(p)
        \/ DecideAdoption_transaction(p)
        \/ Respond(p)

SerialSpec == Init /\ [][NextSerial]_vars

\* the slot of a call that runs next to the calls of SerialProcs
RacerProcs == {2}

\* requests are created and decided one call at a time, while one more
\* call at a time deletes requests: the delete can fall between the load
\* and the transaction of a decide
RaceNext ==
    \/ \E p \in SerialProcs :
        \/ createAnimal(p)
        \/ CreateAdoption_findAnimal(p)
        \/ CreateAdoption_findExisting(p)
        \/ CreateAdoption_insert(p)
        \/ DecideAdoption_load(p)
        \/ DecideAdoption_transaction(p)
        \/ Respond(p)
    \/ \E p \in RacerProcs :
        \/ AdminDeleteAdoption_find(p)
        \/ AdminDeleteAdoption_delete(p)
        \/ Respond(p)

RaceSpec == Init /\ [][RaceNext]_vars

\* ---------------------------------------------------------------- adoption statistics
\* prisma.adopt.count({where: {status}})
CountAdopt(status) ==
    Cardinality({i \in AdoptIds : adopt[i].status = status})

\* GET /admin/adoptions/stats, first await: prisma.adopt.count()
adoptionStats_total(p) ==
    /\ pc[p] = "idle"
    /\ req' = [req EXCEPT ![p] = [NoReq EXCEPT !.op = "stats"]]
    /\ loc' = [loc EXCEPT ![p] =
                 [total |-> Cardinality({i \in AdoptIds : Exists(i)}),
                  pending |-> 0, approved |-> 0, rejected |-> 0]]
    /\ Goto(p, "stats_pending")
    /\ UNCHANGED <<db, registry>>

\* second await: count of the pending requests
adoptionStats_pending(p) ==
    /\ pc[p] = "stats_pending"
    /\ loc' = [loc EXCEPT ![p].pending = CountAdopt("pending")]
    /\ Goto(p, "stats_approved")
    /\ UNCHANGED <<db, req, registry>>

\* third await: count of the approved requests
adoptionStats_approved(p) ==
    /\ pc[p] = "stats_approved"
    /\ loc' = [loc EXCEPT ![p].approved = CountAdopt("approved")]
    /\ Goto(p, "stats_rejected")
    /\ UNCHANGED <<db, req, registry>>

\* fourth await: count of the rejected requests; the summary is answered
\* from the four numbers read
adoptionStats_rejected(p) ==
    /\ pc[p] = "stats_rejected"
    /\ loc' = [loc EXCEPT ![p].rejected = CountAdopt("rejected")]
    /\ Finish(p, 200)
    /\ UNCHANGED <<db, req, registry>>

\* the statistics route next to the calls that create, cancel and decide
\* requests
StatsNext ==
    \E p \in Procs :
        \/ createAnimal(p)
        \/ CreateAdoption_findAnimal(p)
        \/ CreateAdoption_findExisting(p)
        \/ CreateAdoption_insert(p)
        \/ CancelAdoption_find(p)
        \/ CancelAdoption_delete(p)
        \/ DecideAdoption_load(p)
        \/ DecideAdoption_transaction(p)
        \/ adoptionStats_total(p)
        \/ adoptionStats_pending(p)
        \/ adoptionStats_approved(p)
        \/ adoptionStats_rejected(p)
        \/ Respond(p)

StatsSpec == Init /\ [][StatsNext]_vars

\* ---------------------------------------------------------------- donations
DonationStatuses == {"pending", "completed", "failed", "refunded"}

\* the status field of the body of PUT /admin/donations/:id: a valid status,
\* one that is not valid, or none (the field is left out)
UpdateDonationInputs == DonationStatuses \cup {"cancelled", "undefined"}

\* POST /donations: prisma.donation.create with status 'pending'
createDonation(p) ==
    /\ pc[p] = "idle"
    /\ nextDonationId <= MaxDonations
    /\ req' = [req EXCEPT ![p] = [op |-> "createDonation", donationId |-> nextDonationId,
                                  status |-> "pending"]]
    /\ donation' = [donation EXCEPT ![nextDonationId] = "pending"]
    /\ nextDonationId' = nextDonationId + 1
    /\ Finish(p, 201)
    /\ UNCHANGED <<db, loc, volunteer, nextVolunteerId, user, nextUserId, tokens, animalData>>

\* PUT /admin/donations/:id, first await: findUnique, then the status check
updateDonation_find(p) ==
    /\ pc[p] = "idle"
    /\ \E d \in DonationIds, s \in UpdateDonationInputs :
        /\ req' = [req EXCEPT ![p] = [op |-> "updateDonation", donationId |-> d, status |-> s]]
        /\ IF donation[d] = "none" THEN Finish(p, 404)
           ELSE IF s # "undefined" /\ s \notin DonationStatuses THEN Finish(p, 400)
           ELSE Goto(p, "updateDonation_update")
    /\ UNCHANGED <<db, loc, registry>>

\* PUT /admin/donations/:id, second await: prisma.donation.update
updateDonation_update(p) ==
    /\ pc[p] = "updateDonation_update"
    /\ IF donation[req[p].donationId] = "none"
       THEN Finish(p, 500) /\ UNCHANGED donation
       ELSE /\ Finish(p, 200)
            /\ donation' = IF req[p].status = "undefined" THEN donation
                           ELSE [donation EXCEPT ![req[p].donationId] = req[p].status]
    /\ UNCHANGED <<db, req, loc, nextDonationId, volunteer, nextVolunteerId,
                   user, nextUserId, tokens, animalData>>

\* DELETE /admin/donations/:id, first await: findUnique, then the status check
deleteDonation_find(p) ==
    /\ pc[p] = "idle"
    /\ \E d \in DonationIds :
        /\ req' = [req EXCEPT ![p] = [op |-> "deleteDonation", donationId |-> d, status |-> "none"]]
        /\ IF donation[d] = "none" THEN Finish(p, 404)
           ELSE IF donation[d] = "completed" THEN Finish(p, 400)
           ELSE Goto(p, "deleteDonation_delete")
    /\ UNCHANGED <<db, loc, registry>>

\* DELETE /admin/donations/:id, second await: prisma.donation.delete
deleteDonation_delete(p) ==
    /\ pc[p] = "deleteDonation_delete"
    /\ IF donation[req[p].donationId] = "none"
       THEN Finish(p, 500) /\ UNCHANGED donation
       ELSE /\ Finish(p, 200)
            /\ donation' = [donation EXCEPT ![req[p].donationId] = "none"]
    /\ UNCHANGED <<db, req, loc, nextDonationId, volunteer, nextVolunteerId,
                   user, nextUserId, tokens, animalData>>

DonationNext ==
    \E p \in Procs :
        \/ createDonation(p)
        \/ updateDonation_find(p)
        \/ updateDonation_update(p)
        \/ deleteDonation_find(p)
        \/ deleteDonation_delete(p)
        \/ Respond(p)

DonationSpec == Init /\ [][DonationNext]_vars

\* ---------------------------------------------------------------- emails
\* the addresses a caller can send: two texts, each written in lower case or
\* with capitals, with or without surrounding white space
EmailInputs ==
    [name : {"admin@adaopte.com", "bob@x.fr"}, upper : BOOLEAN, padded : BOOLEAN]

\* String.prototype.trim and String.prototype.toLowerCase
Trim(e)        == [e EXCEPT !.padded = FALSE]
ToLowerCase(e) == [e EXCEPT !.upper = FALSE]

\* /^[^\s@]+@[^\s@]+\.[^\s@]+$/ : no white space anywhere in the address
isValidEmail(e) == ~e.padded

\* ---------------------------------------------------------------- volunteers
\* prisma.volunteer.findUnique({where: {email}}): the column is unique and
\* compared as stored
VolunteerByEmail(e) == {v \in VolunteerIds : volunteer[v].email = e}

AppliesInFlight == Cardinality({q \in Procs : pc[q] = "apply_create"})

\* POST /apply: the route's checks, then createVolunteerApplication up to
\* its first await, prisma.volunteer.findUnique
applyVolunteer_find(p) ==
    /\ pc[p] = "idle"
    /\ nextVolunteerId + AppliesInFlight <= MaxVolunteers
    /\ \E e \in EmailInputs :
        /\ req' = [req EXCEPT ![p] = [op |-> "apply", email |-> e]]
        /\ IF ~isValidEmail(e) THEN Finish(p, 400)
           ELSE IF VolunteerByEmail(ToLowerCase(Trim(e))) # {} THEN Finish(p, 409)
           ELSE Goto(p, "apply_create")
    /\ UNCHANGED <<db, loc, registry>>

\* createVolunteerApplication, second await: prisma.volunteer.create; the
\* unique index on email rejects a second row, and the route answers an
\* error whose message does not contain 'existe déjà' with 500
applyVolunteer_create(p) ==
    /\ pc[p] = "apply_create"
    /\ LET e == ToLowerCase(Trim(ToLowerCase(Trim(req[p].email))))
       IN IF VolunteerByEmail(e) # {}
          THEN Finish(p, 500) /\ UNCHANGED <<volunteer, nextVolunteerId>>
          ELSE /\ Finish(p, 201)
               /\ volunteer' = [volunteer EXCEPT ![nextVolunteerId] =
                                    [email |-> e, status |-> "pending"]]
               /\ nextVolunteerId' = nextVolunteerId + 1
    /\ UNCHANGED <<db, req, loc, donation, nextDonationId, user, nextUserId, tokens, animalData>>

\* GET /status/:email: getVolunteerByEmail; the service throws '... non
\* trouvée' and the route tests for '... non trouvé', so a miss answers 500
getVolunteerStatus(p) ==
    /\ pc[p] = "idle"
    /\ \E e \in EmailInputs :
        /\ req' = [req EXCEPT ![p] = [op |-> "volunteerStatus", email |-> e]]
        /\ IF ~isValidEmail(e) THEN Finish(p, 400) /\ UNCHANGED loc
           ELSE LET found == VolunteerByEmail(ToLowerCase(Trim(e)))
                IN IF found = {} THEN Finish(p, 500) /\ UNCHANGED loc
                   ELSE /\ Finish(p, 200)
                        /\ \E v \in found :
                             loc' = [loc EXCEPT ![p] = [NoLoc EXCEPT !.status = volunteer[v].status]]
    /\ UNCHANGED <<db, registry>>

\* approveVolunteer, first await: findUnique and the status check
approveVolunteer_find(p) ==
    /\ pc[p] = "idle"
    /\ \E v \in VolunteerIds :
        /\ req' = [req EXCEPT ![p] = [op |-> "approveVolunteer", volunteerId |-> v]]
        /\ IF volunteer[v] = NoVolunteer THEN Finish(p, 404)
           ELSE IF volunteer[v].status = "approved" THEN Finish(p, 400)
           ELSE Goto(p, "approveVolunteer_update")
    /\ UNCHANGED <<db, loc, registry>>

\* approveVolunteer, second await: prisma.volunteer.update
approveVolunteer_update(p) ==
    /\ pc[p] = "approveVolunteer_update"
    /\ IF volunteer[req[p].volunteerId] = NoVolunteer
       THEN Finish(p, 500) /\ UNCHANGED volunteer
       ELSE /\ Finish(p, 200)
            /\ volunteer' = [volunteer EXCEPT ![req[p].volunteerId].status = "approved"]
    /\ UNCHANGED <<db, req, loc, donation, nextDonationId, nextVolunteerId,
                   user, nextUserId, tokens, animalData>>

\* deleteVolunteer, first await: findUnique
deleteVolunteer_find(p) ==
    /\ pc[p] = "idle"
    /\ \E v \in VolunteerIds :
        /\ req' = [req EXCEPT ![p] = [op |-> "deleteVolunteer", volunteerId |-> v]]
        /\ IF volunteer[v] = NoVolunteer THEN Finish(p, 404)
           ELSE Goto(p, "deleteVolunteer_delete")
    /\ UNCHANGED <<db, loc, registry>>

\* deleteVolunteer, second await: prisma.volunteer.delete
deleteVolunteer_delete(p) ==
    /\ pc[p] = "deleteVolunteer_delete"
    /\ IF volunteer[req[p].volunteerId] = NoVolunteer
       THEN Finish(p, 500) /\ UNCHANGED volunteer
       ELSE /\ Finish(p, 200)
            /\ volunteer' = [volunteer EXCEPT ![req[p].volunteerId] = NoVolunteer]
    /\ UNCHANGED <<db, req, loc, donation, nextDonationId, nextVolunteerId,
                   user, nextUserId, tokens, animalData>>

VolunteerNext ==
    \E p \in Procs :
        \/ applyVolunteer_find(p)
        \/ applyVolunteer_create(p)
        \/ getVolunteerStatus(p)
        \/ approveVolunteer_find(p)
        \/ approveVolunteer_update(p)
        \/ deleteVolunteer_find(p)
        \/ deleteVolunteer_delete(p)
        \/ Respond(p)

VolunteerSpec == Init /\ [][VolunteerNext]_vars

\* ---------------------------------------------------------------- users
ADMIN_EMAILS ==
    { [name |-> "admin@adaopte.com", upper |-> FALSE, padded |-> FALSE],
      [name |-> "manager@adaopte.com", upper |-> FALSE, padded |-> FALSE] }

determineUserRole(e) == IF ToLowerCase(e) \in ADMIN_EMAILS THEN "admin" ELSE "user"

Roles == {"user", "admin"}

\* prisma.user.findUnique({where: {email}}): the column is unique and
\* compared as stored
UserByEmail(e) == {u \in UserIds : user[u].email = e}

\* the Authorization header: a JWT signed by this server, or nothing valid
NoToken == [userId |-> 0, role |-> "none"]
TokenInputs == tokens \cup {NoToken}

\* AuthService.verifyToken
verifyToken(t) == t \in tokens

RegistersInFlight == Cardinality({q \in Procs : pc[q] = "register_create"})

\* POST /register: the route's checks, then AuthService.register up to its
\* first await, prisma.user.findUnique
register_find(p) ==
    /\ pc[p] = "idle"
    /\ nextUserId + RegistersInFlight <= NumUsers
    /\ \E e \in EmailInputs :
        /\ req' = [req EXCEPT ![p] = [op |-> "register", email |-> e]]
        /\ IF ~isValidEmail(e) THEN Finish(p, 400)
           ELSE IF UserByEmail(ToLowerCase(Trim(e))) # {} THEN Finish(p, 409)
           ELSE Goto(p, "register_create")
    /\ UNCHANGED <<db, loc, registry>>

\* AuthService.register: prisma.user.create, then generateToken
register_create(p) ==
    /\ pc[p] = "register_create"
    /\ LET e == ToLowerCase(Trim(req[p].email))
       IN IF UserByEmail(e) # {}
          THEN Finish(p, 500) /\ UNCHANGED <<user, nextUserId, tokens>>
          ELSE /\ Finish(p, 201)
               /\ user' = [user EXCEPT ![nextUserId] =
                              [email |-> e, role |-> determineUserRole(e)]]
               /\ nextUserId' = nextUserId + 1
               /\ tokens' = tokens \cup
                              {[userId |-> nextUserId, role |-> determineUserRole(e)]}
    /\ UNCHANGED <<db, req, loc, donation, nextDonationId, volunteer, nextVolunteerId, animalData>>

\* variant: login keeps the stored role
login_find_noReconcile(p) ==
    /\ pc[p] = "idle"
    /\ \E e \in EmailInputs, passwordOk \in BOOLEAN :
        LET n     == ToLowerCase(Trim(e))
            found == UserByEmail(n)
        IN /\ req' = [req EXCEPT ![p] = [op |-> "login", email |-> e]]
           /\ IF found = {} \/ ~passwordOk
              THEN Finish(p, 401) /\ UNCHANGED <<loc, tokens>>
              ELSE \E u \in found :
                     /\ loc' = [loc EXCEPT ![p] = [userId |-> u, role |-> user[u].role]]
                     /\ Finish(p, 200)
                     /\ tokens' = tokens \cup {[userId |-> u, role |-> user[u].role]}
    /\ UNCHANGED <<db, donation, nextDonationId, volunteer, nextVolunteerId,
                   user, nextUserId, animalData>>

\* POST /login: AuthService.login up to the role comparison; passwordOk is
\* the outcome of comparePassword.  The token carries user.role as loaded.
login_find(p) ==
    /\ pc[p] = "idle"
    /\ \E e \in EmailInputs, passwordOk \in BOOLEAN :
        LET n     == ToLowerCase(Trim(e))
            found == UserByEmail(n)
        IN /\ req' = [req EXCEPT ![p] = [op |-> "login", email |-> e]]
           /\ IF found = {} \/ ~passwordOk
              THEN Finish(p, 401) /\ UNCHANGED <<loc, tokens>>
              ELSE \E u \in found :
                     /\ loc' = [loc EXCEPT ![p] = [userId |-> u, role |-> user[u].role]]
                     /\ IF determineUserRole(n) # user[u].role
                        THEN Goto(p, "login_update") /\ UNCHANGED tokens
                        ELSE /\ Finish(p, 200)
                             /\ tokens' = tokens \cup {[userId |-> u, role |-> user[u].role]}
    /\ UNCHANGED <<db, donation, nextDonationId, volunteer, nextVolunteerId,
                   user, nextUserId, animalData>>

\* AuthService.login: prisma.user.update({data: {role: expectedRole}}), then
\* generateToken(user.id, user.email, user.role)
login_update(p) ==
    /\ pc[p] = "login_update"
    /\ LET u == loc[p].userId
       IN IF user[u] = NoUser
          THEN Finish(p, 500) /\ UNCHANGED <<user, tokens>>
          ELSE /\ Finish(p, 200)
               /\ user' = [user EXCEPT ![u].role =
                              determineUserRole(ToLowerCase(Trim(req[p].email)))]
               /\ tokens' = tokens \cup {[userId |-> u, role |-> loc[p].role]}
    /\ UNCHANGED <<db, req, loc, donation, nextDonationId, volunteer, nextVolunteerId,
                   nextUserId, animalData>>

\* PUT /profile: authMiddleware, the route's checks, then
\* AuthService.updateUserProfile up to its first await (findUnique by id)
updateProfile_findUser(p) ==
    /\ pc[p] = "idle"
    /\ \E t \in TokenInputs, e \in EmailInputs :
        /\ req' = [req EXCEPT ![p] = [op |-> "updateProfile", token |-> t, email |-> e]]
        /\ IF ~verifyToken(t) THEN Finish(p, 401)
           ELSE IF ~isValidEmail(e) THEN Finish(p, 400)
           ELSE IF user[t.userId] = NoUser THEN Finish(p, 404)
           ELSE IF e # user[t.userId].email THEN Goto(p, "updateProfile_findEmail")
           ELSE Goto(p, "updateProfile_update")
    /\ UNCHANGED <<db, loc, registry>>

\* AuthService.updateUserProfile: findUnique({where: {email: updateData.email}}),
\* the address as the caller sent it
updateProfile_findEmail(p) ==
    /\ pc[p] = "updateProfile_findEmail"
    /\ IF UserByEmail(req[p].email) # {} THEN Finish(p, 409)
       ELSE Goto(p, "updateProfile_update")
    /\ UNCHANGED <<db, req, loc, registry>>

\* AuthService.updateUserProfile: prisma.user.update with
\* email.trim().toLowerCase(); the unique index on email rejects a value
\* another row holds, and the route answers that error with 500
updateProfile_update(p) ==
    /\ pc[p] = "updateProfile_update"
    /\ LET u == req[p].token.userId
           e == ToLowerCase(Trim(req[p].email))
       IN IF user[u] = NoUser \/ UserByEmail(e) \ {u} # {}
          THEN Finish(p, 500) /\ UNCHANGED user
          ELSE /\ Finish(p, 200)
               /\ user' = [user EXCEPT ![u].email = e]
    /\ UNCHANGED <<db, req, loc, donation, nextDonationId, volunteer, nextVolunteerId,
                   nextUserId, tokens, animalData>>

\* the routes behind authMiddleware and requireAdmin (adminMiddleware) that
\* write a role
AdminOps == {"promote", "demote", "changeRole", "adminUpdateUser", "deleteUser"}

\* authMiddleware: 401 without a valid token, else next()
admin_auth(p) ==
    /\ pc[p] = "idle"
    /\ \E t \in TokenInputs, op \in AdminOps, target \in UserIds, r \in Roles :
        /\ op = "promote" => r = "admin"
        /\ op \in {"demote", "deleteUser"} => r = "user"
        /\ req' = [req EXCEPT ![p] = [op |-> op, token |-> t, target |-> target, role |-> r]]
        /\ IF ~verifyToken(t) THEN Finish(p, 401)
           ELSE Goto(p, "requireAdmin")
    /\ UNCHANGED <<db, loc, registry>>

\* variant: the role is taken from the token, not from the user table
requireAdmin_tokenRole(p) ==
    /\ pc[p] = "requireAdmin"
    /\ LET caller == req[p].token.userId
           op     == req[p].op
       IN IF req[p].token.role # "admin" THEN Finish(p, 403)
          ELSE IF op = "promote" THEN Goto(p, "promote_update")
          ELSE IF op \in {"demote", "changeRole", "deleteUser"} /\ req[p].target = caller
               THEN Finish(p, 400)
          ELSE IF op = "demote" THEN Goto(p, "demote_update")
          ELSE IF op = "deleteUser" THEN Goto(p, "deleteUser_find")
          ELSE IF op = "changeRole" THEN Goto(p, "changeRole_find")
          ELSE Goto(p, "updateUser_find")
    /\ UNCHANGED <<db, req, loc, registry>>

\* requireAdmin / adminMiddleware: await AuthService.isAdmin(req.user.userId),
\* 403 unless the stored role is 'admin'; then the route up to its first await
requireAdmin(p) ==
    /\ pc[p] = "requireAdmin"
    /\ LET caller == req[p].token.userId
           op     == req[p].op
       IN IF user[caller].role # "admin" THEN Finish(p, 403)
          ELSE IF op = "promote" THEN Goto(p, "promote_update")
          ELSE IF op \in {"demote", "changeRole", "deleteUser"} /\ req[p].target = caller
               THEN Finish(p, 400)
          ELSE IF op = "demote" THEN Goto(p, "demote_update")
          ELSE IF op = "deleteUser" THEN Goto(p, "deleteUser_find")
          ELSE IF op = "changeRole" THEN Goto(p, "changeRole_find")
          ELSE Goto(p, "updateUser_find")
    /\ UNCHANGED <<db, req, loc, registry>>

\* POST /promote/:userId: AuthService.promoteToAdmin, false (400) when the update throws
promoteToAdmin(p) ==
    /\ pc[p] = "promote_update"
    /\ IF user[req[p].target] = NoUser
       THEN Finish(p, 400) /\ UNCHANGED user
       ELSE /\ Finish(p, 200)
            /\ user' = [user EXCEPT ![req[p].target].role = "admin"]
    /\ UNCHANGED <<db, req, loc, donation, nextDonationId, volunteer, nextVolunteerId,
                   nextUserId, tokens, animalData>>

\* POST /demote/:userId: AuthService.demoteFromAdmin, false (400) when the update throws
demoteFromAdmin(p) ==
    /\ pc[p] = "demote_update"
    /\ IF user[req[p].target] = NoUser
       THEN Finish(p, 400) /\ UNCHANGED user
       ELSE /\ Finish(p, 200)
            /\ user' = [user EXCEPT ![req[p].target].role = "user"]
    /\ UNCHANGED <<db, req, loc, donation, nextDonationId, volunteer, nextVolunteerId,
                   nextUserId, tokens, animalData>>

\* PATCH /admin/users/:id/role: AdminUserService.changeUserRole, findUnique
changeUserRole_find(p) ==
    /\ pc[p] = "changeRole_find"
    /\ IF user[req[p].target] = NoUser THEN Finish(p, 400)
       ELSE Goto(p, "changeRole_update")
    /\ UNCHANGED <<db, req, loc, registry>>

\* AdminUserService.changeUserRole: prisma.user.update({data: {role}})
changeUserRole_update(p) ==
    /\ pc[p] = "changeRole_update"
    /\ IF user[req[p].target] = NoUser
       THEN Finish(p, 400) /\ UNCHANGED user
       ELSE /\ Finish(p, 200)
            /\ user' = [user EXCEPT ![req[p].target].role = req[p].role]
    /\ UNCHANGED <<db, req, loc, donation, nextDonationId, volunteer, nextVolunteerId,
                   nextUserId, tokens, animalData>>

\* PUT /admin/users/:id with body {role}: AdminUserService.updateUser, findUnique
updateUser_find(p) ==
    /\ pc[p] = "updateUser_find"
    /\ IF user[req[p].target] = NoUser THEN Finish(p, 400)
       ELSE Goto(p, "updateUser_update")
    /\ UNCHANGED <<db, req, loc, registry>>

\* AdminUserService.updateUser: prisma.user.update({data: {...updateData}})
updateUser_update(p) ==
    /\ pc[p] = "updateUser_update"
    /\ IF user[req[p].target] = NoUser
       THEN Finish(p, 400) /\ UNCHANGED user
       ELSE /\ Finish(p, 200)
            /\ user' = [user EXCEPT ![req[p].target].role = req[p].role]
    /\ UNCHANGED <<db, req, loc, donation, nextDonationId, volunteer, nextVolunteerId,
                   nextUserId, tokens, animalData>>

\* the rows of adopt left when user u is deleted ("les relations seront
\* supprimees en cascade")
OnDeleteUser(rows, u) ==
    [i \in AdoptIds |-> IF rows[i].userid = u THEN NoRow ELSE rows[i]]

\* DELETE /admin/users/:id: AdminUserService.deleteUser, findUnique
deleteUser_find(p) ==
    /\ pc[p] = "deleteUser_find"
    /\ IF user[req[p].target] = NoUser THEN Finish(p, 400)
       ELSE Goto(p, "deleteUser_delete")
    /\ UNCHANGED <<db, req, loc, registry>>

\* AdminUserService.deleteUser: prisma.user.delete; a row that is gone makes
\* the delete throw, which the service turns into success: false (400)
deleteUser_delete(p) ==
    /\ pc[p] = "deleteUser_delete"
    /\ IF user[req[p].target] = NoUser
       THEN Finish(p, 400) /\ UNCHANGED <<user, adopt>>
       ELSE /\ Finish(p, 200)
            /\ user' = [user EXCEPT ![req[p].target] = NoUser]
            /\ adopt' = OnDeleteUser(adopt, req[p].target)
    /\ UNCHANGED <<animal, nextAnimalId, nextAdoptId, req, loc, donation, nextDonationId,
                   volunteer, nextVolunteerId, nextUserId, tokens, animalData>>

UserNext ==
    \E p \in Procs :
        \/ register_find(p)
        \/ register_create(p)
        \/ login_find(p)
        \/ login_update(p)
        \/ updateProfile_findUser(p)
        \/ updateProfile_findEmail(p)
        \/ updateProfile_update(p)
        \/ admin_auth(p)
        \/ requireAdmin(p)
        \/ promoteToAdmin(p)
        \/ demoteFromAdmin(p)
        \/ changeUserRole_find(p)
        \/ changeUserRole_update(p)
        \/ updateUser_find(p)
        \/ updateUser_update(p)
        \/ deleteUser_find(p)
        \/ deleteUser_delete(p)
        \/ Respond(p)

UserSpec == Init /\ [][UserNext]_vars

\* registration and the administrators' role and account endpoints, handled
\* concurrently
AdminRaceNext ==
    \E p \in Procs :
        \/ register_find(p)
        \/ register_create(p)
        \/ admin_auth(p)
        \/ requireAdmin(p)
        \/ promoteToAdmin(p)
        \/ demoteFromAdmin(p)
        \/ changeUserRole_find(p)
        \/ changeUserRole_update(p)
        \/ updateUser_find(p)
        \/ updateUser_update(p)
        \/ deleteUser_find(p)
        \/ deleteUser_delete(p)
        \/ Respond(p)

AdminRaceSpec == Init /\ [][AdminRaceNext]_vars

\* the same calls, one at a time
UserSerialNext ==
    \E p \in SerialProcs :
        \/ register_find(p)
        \/ register_create(p)
        \/ login_find(p)
        \/ login_update(p)
        \/ updateProfile_findUser(p)
        \/ updateProfile_findEmail(p)
        \/ updateProfile_update(p)
        \/ admin_auth(p)
        \/ requireAdmin(p)
        \/ promoteToAdmin(p)
        \/ demoteFromAdmin(p)
        \/ changeUserRole_find(p)
        \/ changeUserRole_update(p)
        \/ updateUser_find(p)
        \/ updateUser_update(p)
        \/ deleteUser_find(p)
        \/ deleteUser_delete(p)
        \/ Respond(p)

UserSerialSpec == Init /\ [][UserSerialNext]_vars

\* ---------------------------------------------------------------- animal records
\* the strings a caller can send for a text field: empty or not, with or
\* without surrounding white space, or no value at all
TextInputs == [text : {"", "Rex"}, padded : BOOLEAN] \cup {Undefined}
AgeInputs  == {0, 3}

\* !value : undefined and the empty string are falsy, "  " is not
Falsy(t) == t = Undefined \/ t = [text |-> "", padded |-> FALSE]

\* description?.trim() || null
CleanDescription(d) == IF d = Undefined \/ Falsy(Trim(d)) THEN Null ELSE Trim(d)

\* variant: the fields are stored as submitted
createAnimalRecord_noTrim(p) ==
    /\ pc[p] = "idle"
    /\ nextAnimalId <= MaxAnimals
    /\ \E fs \in [TextFields -> TextInputs], age \in AgeInputs, d \in TextInputs :
        /\ req' = [req EXCEPT ![p] = [op |-> "createAnimalRecord", animalId |-> nextAnimalId,
                                      fields |-> fs, age |-> age, description |-> d]]
        /\ IF (\E f \in TextFields : Falsy(fs[f])) \/ age <= 0
           THEN Finish(p, 400) /\ UNCHANGED <<animal, nextAnimalId, animalData>>
           ELSE /\ Finish(p, 201)
                /\ animal' = [animal EXCEPT ![nextAnimalId] = "available"]
                /\ animalData' = [animalData EXCEPT ![nextAnimalId] =
                      [fields |-> fs, age |-> age, description |-> CleanDescription(d)]]
                /\ nextAnimalId' = nextAnimalId + 1
    /\ UNCHANGED <<adopt, nextAdoptId, loc, donation, nextDonationId, volunteer,
                   nextVolunteerId, user, nextUserId, tokens>>

\* AnimalService.createAnimal with all the columns of the row
createAnimalRecord(p) ==
    /\ pc[p] = "idle"
    /\ nextAnimalId <= MaxAnimals
    /\ \E fs \in [TextFields -> TextInputs], age \in AgeInputs, d \in TextInputs :
        /\ req' = [req EXCEPT ![p] = [op |-> "createAnimalRecord", animalId |-> nextAnimalId,
                                      fields |-> fs, age |-> age, description |-> d]]
        /\ IF (\E f \in TextFields : Falsy(fs[f])) \/ age <= 0
           THEN Finish(p, 400) /\ UNCHANGED <<animal, nextAnimalId, animalData>>
           ELSE /\ Finish(p, 201)
                /\ animal' = [animal EXCEPT ![nextAnimalId] = "available"]
                /\ animalData' = [animalData EXCEPT ![nextAnimalId] =
                      [fields |-> [f \in TextFields |-> Trim(fs[f])], age |-> age,
                       description |-> CleanDescription(d)]]
                /\ nextAnimalId' = nextAnimalId + 1
    /\ UNCHANGED <<adopt, nextAdoptId, loc, donation, nextDonationId, volunteer,
                   nextVolunteerId, user, nextUserId, tokens>>

\* AnimalService.getAnimalById: the row as stored, 404 when there is none
getAnimalById(p) ==
    /\ pc[p] = "idle"
    /\ \E a \in AnimalIds :
        /\ req' = [req EXCEPT ![p] = [op |-> "getAnimalById", animalId |-> a]]
        /\ IF animal[a] = "none"
           THEN Finish(p, 404) /\ UNCHANGED loc
           ELSE /\ Finish(p, 200)
                /\ loc' = [loc EXCEPT ![p] =
                      [fields |-> animalData[a].fields, age |-> animalData[a].age,
                       description |-> animalData[a].description, status |-> animal[a]]]
    /\ UNCHANGED <<db, registry>>

\* animals are created and read back, one call at a time; no call updates
\* or deletes them
AnimalRecordNext ==
    \E p \in SerialProcs :
        \/ createAnimalRecord(p)
        \/ getAnimalById(p)
        \/ Respond(p)

AnimalRecordSpec == Init /\ [][AnimalRecordNext]_vars

\* ---------------------------------------------------------------- claims
Approved(a) == {i \in AdoptIds : adopt[i].animalid = a /\ adopt[i].status = "approved"}
Pending(a)  == {i \in AdoptIds : adopt[i].animalid = a /\ adopt[i].status = "pending"}
Active(u, a) ==
    {i \in AdoptIds : adopt[i].userid = u /\ adopt[i].animalid = a
                      /\ adopt[i].status \in {"pending", "approved"}}

\* a call of route op has answered in slot p
Answered(p, op) == pc[p] = "done" /\ req[p].op = op

\* C1: in every reachable state an animal's status is 'adopted' if and only
\* if exactly one adoption request referencing it has status 'approved'.
C1_AdoptedIffOneApproved ==
    \A a \in AnimalIds :
        animal[a] # "none" =>
            (animal[a] = "adopted" <=> Cardinality(Approved(a)) = 1)

\* C2: two decide(approved) calls on different requests of one animal, both
\* loaded while their request was pending, never both answer 200: one ends
\* approved, the other answers 409 and its request is not approved.
C2_ConcurrentApproveOneWins ==
    \A p, q \in Procs :
        ( /\ p # q
          /\ Answered(p, "decide") /\ Answered(q, "decide")
          /\ req[p].status = "approved" /\ req[q].status = "approved"
          /\ req[p].adoptionId # req[q].adoptionId
          /\ loc[p].animalid = loc[q].animalid
          /\ loc[p].status = "pending" /\ loc[q].status = "pending" )
        => /\ {res[p], res[q]} = {200, 409}
           /\ ~ ( adopt[req[p].adoptionId].status = "approved"
                  /\ adopt[req[q].adoptionId].status = "approved" )

\* C3: with calls run one after the other, decide(approved) on a request B
\* that was rejected when another request of the same animal was approved
\* answers 409 and leaves B rejected.
C3_SecondApproveConflicts ==
    \A p \in Procs :
        ( /\ Answered(p, "decide")
          /\ req[p].status = "approved"
          /\ loc[p].status = "rejected"
          /\ loc[p].animalStatus = "adopted"
          /\ \E i \in Approved(loc[p].animalid) : i # req[p].adoptionId )
        => /\ res[p] = 409
           /\ adopt[req[p].adoptionId].status = "rejected"

\* C5: between decide's load and decide's transaction nothing takes effect:
\* the request still exists with the status the load read, and the animal
\* still has the status the load read.
C5_DecideWritesWhatItRead ==
    \A p \in Procs :
        pc[p] = "decide_tx" =>
            /\ Exists(req[p].adoptionId)
            /\ adopt[req[p].adoptionId].status = loc[p].status
            /\ animal[loc[p].animalid] = loc[p].animalStatus

\* C6: in every reachable state there is at most one pending or approved
\* adoption request per (userId, animalId) pair.
C6_OneActivePerUserAnimal ==
    \A u \in UserIds, a \in AnimalIds : Cardinality(Active(u, a)) <= 1

\* C10: the status of an existing adoption request only ever changes from
\* pending to approved or from pending to rejected.
C10_OnlyPendingIsDecided ==
    [][ \A i \in AdoptIds :
          (Exists(i) /\ adopt'[i].status # "none" /\ adopt'[i].status # adopt[i].status)
          => (adopt[i].status = "pending" /\ adopt'[i].status \in {"approved", "rejected"})
      ]_vars

\* the statuses the routes answer a state or uniqueness conflict with
ConflictCodes == {400, 409}

\* the step by which a POST /adoptions call answers
CreateAnswers(p) == pc[p] # "done" /\ pc'[p] = "done" /\ req'[p].op = "create"

\* exactly one row is added, pending, for (u, a); nothing else changes
Inserted(u, a) ==
    /\ nextAdoptId \in AdoptIds
    /\ adopt' = [adopt EXCEPT ![nextAdoptId] =
                    [userid |-> u, animalid |-> a, status |-> "pending"]]
    /\ nextAdoptId' = nextAdoptId + 1
    /\ animal' = animal

\* the step by which the transaction of a decide call ends
DecideEnds(p, s) == pc[p] = "decide_tx" /\ pc'[p] = "done" /\ req[p].status = s

C7_CreateAfterPendingAndAfterRejected ==
    [][ \A p \in Procs :
          CreateAnswers(p) =>
            LET u == req'[p].userId
                a == req'[p].animalId
                Has(st) == \E i \in AdoptIds :
                              adopt[i] = [userid |-> u, animalid |-> a, status |-> st]
            IN /\ Has("pending") => (res'[p] \in ConflictCodes /\ UNCHANGED db)
               /\ (Has("rejected") /\ Active(u, a) = {} /\ animal[a] = "available")
                     => (res'[p] = 201 /\ Inserted(u, a))
      ]_vars

C7_Witness ==
    \E p \in Procs :
        /\ Answered(p, "create") /\ res[p] = 201
        /\ \E i, j \in AdoptIds :
              /\ i < j /\ nextAdoptId = j + 1
              /\ adopt[i] = [userid |-> req[p].userId, animalid |-> req[p].animalId,
                             status |-> "rejected"]
              /\ adopt[j] = [userid |-> req[p].userId, animalid |-> req[p].animalId,
                             status |-> "pending"]

\* C8: a create call answers 404 when the animal does not exist and a
\* conflict when the animal is not 'available', changing no record in both
\* cases; when the animal is available and the pair has no active request it
\* answers 201 and inserts exactly one request, with status 'pending'.
C8_CreateChecksAnimal ==
    [][ \A p \in Procs :
          CreateAnswers(p) =>
            LET u == req'[p].userId
                a == req'[p].animalId
            IN /\ animal[a] = "none" => (res'[p] = 404 /\ UNCHANGED db)
               /\ animal[a] \in {"adopted", "pending"}
                     => (res'[p] \in ConflictCodes /\ UNCHANGED db)
               /\ (animal[a] = "available" /\ Active(u, a) = {})
                     => (res'[p] = 201 /\ Inserted(u, a))
      ]_vars

C8_Witness ==
    \E p \in Procs :
        /\ Answered(p, "create") /\ res[p] = 400
        /\ animal[req[p].animalId] = "adopted"
        /\ Active(req[p].userId, req[p].animalId) = {}

StepOf(p, op) == pc'[p] # pc[p] /\ req'[p].op = op

\* C11: cancel(id, u) answers Forbidden when u does not own request id and
\* Conflict when the request is not pending, the request staying in both
\* cases; otherwise it deletes exactly that request.  Whatever the outcome,
\* the animal table and every other request are unchanged.
C11_CancelOutcomes ==
    [][ \A p \in Procs :
          LET id == req'[p].adoptionId
              u  == req'[p].userId
          IN StepOf(p, "cancel") =>
               /\ animal' = animal
               /\ \A j \in AdoptIds \ {id} : adopt'[j] = adopt[j]
               /\ (Exists(id) /\ adopt[id].userid # u)
                    => pc'[p] = "done" /\ res'[p] = 403 /\ adopt'[id] = adopt[id]
               /\ (Exists(id) /\ adopt[id].userid = u /\ adopt[id].status # "pending")
                    => pc'[p] = "done" /\ res'[p] \in ConflictCodes /\ adopt'[id] = adopt[id]
               /\ (Exists(id) /\ adopt[id].userid = u /\ adopt[id].status = "pending")
                    => IF pc[p] = "idle"
                       THEN pc'[p] # "done" /\ adopt' = adopt
                       ELSE pc'[p] = "done" /\ res'[p] = 200 /\ adopt'[id] = NoRow
      ]_vars

\* a cancel has deleted its request while another request of the same animal
\* stays pending
C11_Witness ==
    \E p \in Procs, a \in AnimalIds :
        /\ Answered(p, "cancel") /\ res[p] = 200
        /\ ~Exists(req[p].adoptionId)
        /\ Pending(a) # {}
        /\ animal[a] = "available"

\* C13: no step of a POST /adoptions call, successful or failed, changes an
\* animal record: an animal stays 'available' however many pending requests
\* reference it.
C13_CreateLeavesAnimals ==
    [][ \A p \in Procs :
          StepOf(p, "create") => animal' = animal /\ nextAnimalId' = nextAnimalId
      ]_vars

\* a create has answered 201 and its animal, with two pending requests, is
\* still 'available'
C13_Witness ==
    \E p \in Procs :
        /\ Answered(p, "create") /\ res[p] = 201
        /\ animal[req[p].animalId] = "available"
        /\ Cardinality(Pending(req[p].animalId)) = 2

\* C14: the transaction of decide never takes an animal out of 'adopted': an
\* animal that is 'adopted' when the transaction writes is 'adopted' after.
C14_DecideKeepsAdopted ==
    [][ \A p \in Procs, a \in AnimalIds :
          (pc[p] = "decide_tx" /\ pc'[p] = "done" /\ animal[a] = "adopted")
             => animal'[a] = "adopted"
      ]_vars

\* C12: a deleteAnimal call that answers while a pending request references
\* the animal answers Conflict (409) and leaves animals and requests as they
\* were, also when the request was created after the call's check.
C12_DeleteAnimalRefusedWhilePending ==
    [][ \A p \in Procs :
          ( /\ StepOf(p, "deleteAnimal") /\ pc'[p] = "done"
            /\ Pending(req'[p].animalId) # {} )
             => res'[p] = 409 /\ UNCHANGED db
      ]_vars

\* C15: DELETE /admin/donations/:id never removes a donation whose status is
\* 'completed': no step takes a completed donation out of the table, also
\* when the status became 'completed' after the delete's own check.
C15_CompletedDonationStays ==
    [][ \A d \in DonationIds : donation[d] = "completed" => donation'[d] # "none" ]_vars
\* C16: an application whose trimmed, lower-cased email equals the email of
\* an application already stored is answered 409 and creates no record, also
\* when the other application was submitted concurrently.
C16_DuplicateApplicationGets409 ==
    [][ \A p \in Procs :
          ( /\ StepOf(p, "apply") /\ pc'[p] = "done"
            /\ isValidEmail(req'[p].email)
            /\ \E v \in VolunteerIds :
                 volunteer[v].email = ToLowerCase(Trim(req'[p].email)) )
             => res'[p] = 409 /\ volunteer' = volunteer
      ]_vars
\* C17: a PUT /profile whose new email, trimmed and lower-cased, equals the
\* email stored for another user is answered 409 and changes no user record.
C17_ProfileEmailConflictGets409 ==
    [][ \A p \in Procs :
          ( /\ StepOf(p, "updateProfile") /\ pc'[p] = "done"
            /\ verifyToken(req'[p].token)
            /\ isValidEmail(req'[p].email)
            /\ user[req'[p].token.userId] # NoUser
            /\ \E u \in UserIds \ {req'[p].token.userId} :
                 user[u].email = ToLowerCase(Trim(req'[p].email)) )
             => res'[p] = 409 /\ user' = user
      ]_vars

C19_AdminKeepsOwnRole ==
    [][ \A p \in Procs :
          ( /\ pc'[p] # pc[p] /\ req'[p].op \in AdminOps
            /\ req'[p].target = req'[p].token.userId
            /\ user[req'[p].target].role = "admin" )
             => user'[req'[p].target].role = "admin"
      ]_vars
\* C20: in every summary GET /admin/adoptions/stats returns, the counts of
\* pending, approved and rejected requests add up to the total, also when
\* create, cancel or decide commit between the count queries.
C20_StatsReconcile ==
    \A p \in Procs :
        (Answered(p, "stats") /\ res[p] = 200)
           => loc[p].pending + loc[p].approved + loc[p].rejected = loc[p].total
C22_StatusOfUnknownEmailIs404 ==
    [][ \A p \in Procs :
          ( /\ StepOf(p, "volunteerStatus") /\ pc'[p] = "done"
            /\ isValidEmail(req'[p].email)
            /\ \A v \in VolunteerIds :
                 volunteer[v].email # ToLowerCase(Trim(req'[p].email)) )
             => res'[p] = 404 /\ volunteer' = volunteer
      ]_vars
\* C23: createAnimal stores, for every input it accepts, the trimmed type,
\* name, city and breed, the submitted age, the trimmed description (null
\* when empty or absent) and status 'available'; getAnimalById returns the
\* row as stored.  With no update or delete in between, a get of the
\* returned id yields those values.
C23_AnimalRoundTrip ==
    [][ \A p \in Procs :
          /\ (StepOf(p, "createAnimalRecord") /\ res'[p] = 201) =>
                LET a  == req'[p].animalId
                    in == req'[p]
                IN /\ \A f \in TextFields :
                        animalData'[a].fields[f] = [in.fields[f] EXCEPT !.padded = FALSE]
                   /\ animalData'[a].age = in.age
                   /\ animalData'[a].description =
                        IF in.description = Undefined \/ in.description.text = ""
                        THEN Null
                        ELSE [in.description EXCEPT !.padded = FALSE]
                   /\ animal'[a] = "available"
          /\ (StepOf(p, "getAnimalById") /\ res'[p] = 200) =>
                LET a == req'[p].animalId
                IN /\ loc'[p].fields = animalData[a].fields
                   /\ loc'[p].age = animalData[a].age
                   /\ loc'[p].description = animalData[a].description
                   /\ loc'[p].status = animal[a]
                   /\ loc'[p].status = "available"
      ]_vars

\* an animal submitted with a padded name and a blank description has been
\* read back with the trimmed name and a null description
C23_Witness ==
    \E p \in Procs :
        /\ Answered(p, "getAnimalById") /\ res[p] = 200
        /\ loc[p].fields["name"] = [text |-> "Rex", padded |-> FALSE]
        /\ loc[p].fields["city"] = [text |-> "", padded |-> FALSE]
        /\ loc[p].description = Null
        /\ loc[p].age = 3
        /\ loc[p].status = "available"
\* a login call answers 200 in this step
LoginSucceeds(p) == StepOf(p, "login") /\ pc'[p] = "done" /\ res'[p] = 200

\* the role the allow-list gives to a stored email
AllowListRole(e) ==
    IF e.name \in {"admin@adaopte.com", "manager@adaopte.com"} /\ ~e.upper /\ ~e.padded
    THEN "admin" ELSE "user"

\* C24: when a login succeeds, the stored role of the user who logged in is
\* the role the admin email allow-list gives to their email, whatever role
\* was stored before.
C24_LoginReconcilesRole ==
    [][ \A p \in Procs :
          LoginSucceeds(p) =>
             \A u \in UserIds :
                user'[u].email = [req'[p].email EXCEPT !.upper = FALSE, !.padded = FALSE]
                   => user'[u].role = AllowListRole(user'[u].email)
      ]_vars

\* a user who registered as 'user' (their registration token says so) and was
\* then stored as 'admin' has logged in and is stored as 'user' again
C24_Witness ==
    \E p \in Procs :
        /\ Answered(p, "login") /\ res[p] = 200
        /\ loc[p].role = "admin"
        /\ user[loc[p].userId].role = "user"
        /\ [userId |-> loc[p].userId, role |-> "user"] \in tokens

\* C25: the token a successful login signs carries the role stored for the
\* user when the login completes: the only token the step adds is the one
\* with that role.
C25_LoginTokenHasStoredRole ==
    [][ \A p \in Procs :
          LoginSucceeds(p) =>
             \E u \in UserIds :
                /\ user'[u].email = [req'[p].email EXCEPT !.upper = FALSE, !.padded = FALSE]
                /\ tokens' = tokens \cup {[userId |-> u, role |-> user'[u].role]}
      ]_vars

\* C26: no step of a call a user makes on their own account (register,
\* login, profile update) takes the role 'admin' away from a user who has it.
C26_OwnCallsKeepAdmin ==
    [][ \A p \in Procs :
          (pc'[p] # pc[p] /\ req'[p].op \in {"register", "login", "updateProfile"})
             => \A u \in UserIds : user[u].role = "admin" => user'[u].role = "admin"
      ]_vars
\* C27: the delete of a cancel call removes only a request that is pending
\* when it is deleted: a request that an administrator approved or rejected
\* in the meantime is not removed, so no animal stays 'adopted' for a request
\* that a cancel deleted.
C27_CancelDeletesOnlyPending ==
    [][ \A p \in Procs :
          (StepOf(p, "cancel") /\ adopt' # adopt)
             => adopt[req[p].adoptionId].status = "pending"
      ]_vars

\* a create or decide call is between its first await and its response
CreateOrDecideInProgress ==
    \E p \in Procs : pc[p] \in {"create_findExisting", "create_insert", "decide_tx"}

\* C28: whenever no create or decide call is in progress, an animal that is
\* 'adopted' with an approved request has no pending request.
C28_NoPendingOnApprovedAnimal ==
    ~CreateOrDecideInProgress =>
        \A a \in AnimalIds :
            (animal[a] = "adopted" /\ Approved(a) # {}) => Pending(a) = {}
\* some user is stored with role 'admin'
HasAdmin == \E u \in UserIds : user[u].role = "admin"

\* C29: no step of demote, role patch or admin user delete (the endpoints
\* that refuse a call on the caller's own account) takes the last stored
\* admin away: if some user is an admin before the step, some user is an
\* admin after it.
C29_AdminRemains ==
    [][ \A p \in Procs :
          (pc'[p] # pc[p] /\ req'[p].op \in {"demote", "changeRole", "deleteUser"})
             => (HasAdmin => HasAdmin')
      ]_vars

\* the boolean members of the JSON body a route sends with a status: every
\* response of the adoption routes is {success: <status is 200 or 201>, ...}
\* except two of POST /adoptions: its 409 is {succes: false, ...} and its
\* 500 is {success: true, ...}
Envelope(op, status) ==
    IF op = "create" /\ status = 409 THEN [succes |-> FALSE]
    ELSE IF op = "create" /\ status = 500 THEN [success |-> TRUE]
    ELSE [success |-> status \in {200, 201}]

\* the calls of the adoption routes
AdoptionOps == {"create", "cancel", "decide", "adminDelete"}

\* C30: the body of every response of an adoption route has the member
\* success, and it is true exactly when the status is 200 or 201.
C30_SuccessMatchesStatus ==
    \A p \in Procs :
        (pc[p] = "done" /\ req[p].op \in AdoptionOps) =>
            LET body == Envelope(req[p].op, res[p])
            IN /\ "success" \in DOMAIN body
               /\ body.success = (res[p] \in {200, 201})
====
